---- MODULE Spec2Model ----
(***************************************************************************)
(* State machine of bspump.elasticsearch.connection: ElasticSearchBulk     *)
(* (the batch) and ElasticSearchConnection (open bulks, the output queue,  *)
(* the loader tasks, the tick and exit handlers).                          *)
(***************************************************************************)
EXTENDS Integers, Sequences, FiniteSets, TLC

(* ------------------------------------------------------------------ *)
(* Configuration, with small values standing for the configured ones. *)
(* ------------------------------------------------------------------ *)

\* Config['output_queue_max_size']
output_queue_max_size == 1

\* Config['bulk_out_max_size']
bulk_out_max_size == 2

\* Config['loader_per_url']
loader_per_url == 2

\* Config['url'] split on whitespace: the nodes of the cluster
node_urls == <<"n1">>

\* maxsize of asyncio.Queue(): 0, the queue is never full
queue_maxsize == 0

(* ------------------------------------------------------------------ *)
(* Bounds of the model.                                               *)
(* ------------------------------------------------------------------ *)

\* consume() calls that pass a feed, over a run
MaxConsume == 2

\* items of one consume() call
MaxFeed == 2

\* largest len(item)
MaxItemLen == 2

\* response items in one acknowledgement
MaxRespItems == 2

\* cap of the "fail" counter (a requeued bulk may fail again and again)
MaxFail == 2

\* consume() calls that pass a feed, over a run checked for liveness
MaxConsumeLive == 1

Keys == {"x", "y"}

None == "None"

\* None where a bulk is expected (the end-of-life value of the queue)
NoBulk == [Index |-> None, Aging |-> 0, Capacity |-> 0, Items |-> <<>>]

\* None where a future is expected
NoFuture == 0

VARIABLES
    bulks,          \* self._bulks: the open bulks, in insertion order
    output_queue,   \* self._output_queue: bulks and None (end of life)
    started,        \* self._started
    futures,        \* self._futures: per slot the task, or None
    tasks,          \* the _loader() tasks: where each is, the bulk it holds
    subscribed,     \* Application.tick! is subscribed (after _start)
    exit_pc,        \* where _on_exit is
    pending,        \* _on_exit's pending
    InsertMetric,   \* counter elasticsearch.insert: ok, fail
    published,      \* what the handler that ran last published on PubSub
    fed,            \* consume() calls that passed a feed so far
    last_event      \* the last notification the subscribers of PubSub got

vars == <<bulks, output_queue, started, futures, tasks, subscribed, exit_pc,
          pending, InsertMetric, published, fed, last_event>>

PAUSE == "ElasticSearchConnection.pause!"

UNPAUSE == "ElasticSearchConnection.unpause!"

\* PubSub.publish: the last notification once pub was published after prev
LastPublished(prev, pub) == IF pub = <<>> THEN prev ELSE pub[Len(pub)]

(* ------------------------------------------------------------------ *)
(* Items: an item is a payload, a string of bytes.                    *)
(* ------------------------------------------------------------------ *)

\* the payloads: byte strings of 1..MaxItemLen bytes
Payloads == { [i \in 1..n |-> 0] : n \in 1..MaxItemLen }

len(item) == Len(item)

\* the feeds a consume() call may pass: the sequences of at most MaxFeed
\* payloads (None is the other input)
Feeds == UNION { [1..k -> Payloads] : k \in 0..MaxFeed }

(* ------------------------------------------------------------------ *)
(* ElasticSearchBulk                                                  *)
(* ------------------------------------------------------------------ *)

\* ElasticSearchBulk.__init__
NewBulk(index, max_size) ==
    [Index |-> index, Aging |-> 0, Capacity |-> max_size, Items |-> <<>>]

RECURSIVE BulkAppendAll_stops_when_full(_, _)
\* a loop that stops appending once Capacity is used up
BulkAppendAll_stops_when_full(bulk, feed) ==
    IF feed = <<>> \/ bulk.Capacity <= 0 THEN bulk
    ELSE BulkAppendAll_stops_when_full(
            [bulk EXCEPT !.Items = Append(@, Head(feed)),
                         !.Capacity = @ - len(Head(feed))],
            Tail(feed))

RECURSIVE BulkAppendAll(_, _)
\* the loop of ElasticSearchBulk.consume: append, take len(item) off Capacity
BulkAppendAll(bulk, feed) ==
    IF feed = <<>> THEN bulk
    ELSE BulkAppendAll(
            [bulk EXCEPT !.Items = Append(@, Head(feed)),
                         !.Capacity = @ - len(Head(feed))],
            Tail(feed))

\* ElasticSearchBulk.consume: the bulk after the call
BulkConsume(bulk, feed) ==
    [BulkAppendAll(bulk, feed) EXCEPT !.Aging = 0]

\* full only once the capacity is overdrawn
BulkFull_overdrawn(bulk) == bulk.Capacity < 0

\* ElasticSearchBulk.consume: its return value
BulkFull(bulk) == bulk.Capacity <= 0

RECURSIVE get_data_from_items_reversed(_)
\* the items yielded last to first
get_data_from_items_reversed(items) ==
    IF items = <<>> THEN <<>>
    ELSE get_data_from_items_reversed(Tail(items)) \o <<Head(items)>>

RECURSIVE get_data_from_items(_)
\* ElasticSearchBulk._get_data_from_items: yields the items one by one
get_data_from_items(items) ==
    IF items = <<>> THEN <<>>
    ELSE <<Head(items)>> \o get_data_from_items(Tail(items))

\* a callback that gives the bulk up
full_error_callback_drop(bulk_items, return_code) == TRUE

\* ElasticSearchBulk.full_error_callback: False, resubmit the bulk
full_error_callback(bulk_items, return_code) == FALSE

(* ------------------------------------------------------------------ *)
(* The output queue and PubSub                                        *)
(* ------------------------------------------------------------------ *)

\* full() of a queue made with maxsize=output_queue_max_size
full_bounded(q) == Len(q) >= output_queue_max_size

\* asyncio.Queue.full()
full(q) == queue_maxsize > 0 /\ Len(q) >= queue_maxsize

\* asyncio.Queue.put_nowait (QueueFull is raised when full)
put_nowait(q, x) == Append(q, x)

\* enqueue publishing whenever the queue is at or over the max
enqueue_level_triggered(st, bulk) ==
    LET q == Append(st.queue, bulk) IN
    [queue |-> q,
     published |-> IF Len(q) >= output_queue_max_size
                   THEN Append(st.published, "ElasticSearchConnection.pause!")
                   ELSE st.published]

\* ElasticSearchConnection.enqueue on st = [queue, published]
enqueue(st, bulk) ==
    LET q == put_nowait(st.queue, bulk) IN
    [queue |-> q,
     published |-> IF Len(q) = output_queue_max_size
                   THEN Append(st.published, PAUSE)
                   ELSE st.published]

RECURSIVE EnqueueAll(_, _)
\* the second loop of flush: enqueue the aged bulks in order
EnqueueAll(st, aged) ==
    IF aged = <<>> THEN st
    ELSE EnqueueAll(enqueue(st, Head(aged)), Tail(aged))

\* a seal that leaves the bulk in the open bulks
Remove_keeps(s, i) == s

\* positions of the open bulks with this index
IndexPos(bs, index) == { i \in 1..Len(bs) : bs[i].Index = index }

Remove(s, i) == SubSeq(s, 1, i - 1) \o SubSeq(s, i + 1, Len(s))

RECURSIVE SelectSeqBy(_, _)
SelectSeqBy(s, keep) ==
    IF s = <<>> THEN <<>>
    ELSE (IF keep[1] THEN <<Head(s)>> ELSE <<>>)
         \o SelectSeqBy(Tail(s), Tail(keep))

\* flush: Aging += 1 on every open bulk
AgeAll(bs) == [i \in 1..Len(bs) |-> [bs[i] EXCEPT !.Aging = @ + 1]]

\* aged one tick later
IsAged_late(bulk, forced) == bulk.Aging >= 3 \/ forced

\* flush: which bulks are aged
IsAged(bulk, forced) == bulk.Aging >= 2 \/ forced

\* ElasticSearchConnection.flush on c = [bulks, queue, published]
flush(c, forced) ==
    LET aged_bs == AgeAll(c.bulks)
        marks == [i \in 1..Len(aged_bs) |-> IsAged(aged_bs[i], forced)]
        keeps == [i \in 1..Len(aged_bs) |-> ~marks[i]]
        st == EnqueueAll([queue |-> c.queue, published |-> c.published],
                         SelectSeqBy(aged_bs, marks))
    IN [bulks |-> SelectSeqBy(aged_bs, keeps),
        queue |-> st.queue,
        published |-> st.published]

(* ------------------------------------------------------------------ *)
(* The loader tasks and their slots                                   *)
(* ------------------------------------------------------------------ *)

\* the slots of __init__: loader_per_url per node
InitFutures ==
    [i \in 1..(Len(node_urls) * loader_per_url) |->
        [url |-> node_urls[((i - 1) \div loader_per_url) + 1], future |-> NoFuture]]

\* task objects the model can hold at once: one per slot and one spare
TaskIds == 1..(Len(InitFutures) + 1)

NoTask == [pc |-> "free", url |-> None, bulk |-> NoBulk, data |-> <<>>]

\* asyncio.Future.done()
done(task) == task.pc = "done"

FreeIds(ts) == { t \in TaskIds : ts[t].pc = "free" }

Min(S) == CHOOSE x \in S : \A y \in S : x <= y

\* a finished future left in its slot
ShouldClear_never(future, ts) == FALSE

\* _on_tick, 1): a finished future is taken out of its slot
ShouldClear(future, ts) == future /= NoFuture /\ done(ts[future])

\* a new _loader() started into every slot at every tick
ShouldSpawn_every_tick(future, is_started) == is_started

\* _on_tick, 2): a new _loader() is started into the slot
ShouldSpawn(future, is_started) == is_started /\ future = NoFuture

RECURSIVE TickSlots(_, _, _, _)
\* the loop of _on_tick over range(len(self._futures)), from slot i on
TickSlots(i, fs, ts, is_started) ==
    IF i > Len(fs) THEN [futures |-> fs, tasks |-> ts]
    ELSE
      LET clear == ShouldClear(fs[i].future, ts)
          fs1 == IF clear THEN [fs EXCEPT ![i].future = NoFuture] ELSE fs
          ts1 == IF clear THEN [ts EXCEPT ![fs[i].future] = NoTask] ELSE ts
          spawn == ShouldSpawn(fs1[i].future, is_started) /\ FreeIds(ts1) /= {}
          t == Min(FreeIds(ts1))
          fs2 == IF spawn THEN [fs1 EXCEPT ![i].future = t] ELSE fs1
          ts2 == IF spawn
                 THEN [ts1 EXCEPT ![t] = [pc |-> "preflight", url |-> fs[i].url,
                                          bulk |-> NoBulk, data |-> <<>>]]
                 ELSE ts1
      IN TickSlots(i + 1, fs2, ts2, is_started)

(* ------------------------------------------------------------------ *)
(* Initial state: after ElasticSearchConnection.__init__              *)
(* ------------------------------------------------------------------ *)

Init ==
    /\ bulks = <<>>
    /\ output_queue = <<>>
    /\ started = TRUE
    /\ futures = InitFutures
    /\ tasks = [t \in TaskIds |-> NoTask]
    /\ subscribed = FALSE
    /\ exit_pc = "none"
    /\ pending = {}
    /\ InsertMetric = [ok |-> 0, fail |-> 0]
    /\ published = <<>>
    /\ fed = 0
    /\ last_event = None

(* ------------------------------------------------------------------ *)
(* ElasticSearchConnection.consume                                    *)
(* ------------------------------------------------------------------ *)

\* the open bulk of index, or a new one put at the end of the map
LookupOrCreate(bs, index) ==
    IF IndexPos(bs, index) = {}
    THEN Append(bs, NewBulk(index, bulk_out_max_size))
    ELSE bs

\* consume(index, data_feeder_generator) on c = [bulks, queue, published]
consume_result(c, index, feed) ==
    LET bs == LookupOrCreate(c.bulks, index)
        i == CHOOSE j \in IndexPos(bs, index) : TRUE
        bulk == BulkConsume(bs[i], feed)
    IN IF BulkFull(bulk)
       THEN LET st == enqueue([queue |-> c.queue, published |-> c.published], bulk)
            IN [bulks |-> Remove(bs, i), queue |-> st.queue,
                published |-> st.published]
       ELSE [bulks |-> [bs EXCEPT ![i] = bulk], queue |-> c.queue,
             published |-> c.published]

\* consume(index, None): returns at once
ConsumeNone(index) ==
    /\ published' = <<>>
    /\ UNCHANGED <<bulks, output_queue, started, futures, tasks, subscribed,
                   exit_pc, pending, InsertMetric, fed, last_event>>

\* consume(index, feed), feed a sequence of items
Consume(index, feed) ==
    /\ fed < MaxConsume
    /\ LET r == consume_result(
                    [bulks |-> bulks, queue |-> output_queue, published |-> <<>>],
                    index, feed)
       IN /\ Len(r.queue) > Len(output_queue) => ~full(output_queue)
          /\ bulks' = r.bulks
          /\ output_queue' = r.queue
          /\ published' = r.published
    /\ fed' = fed + 1
    /\ last_event' = LastPublished(last_event, published')
    /\ UNCHANGED <<started, futures, tasks, subscribed, exit_pc, pending,
                   InsertMetric>>

(* ------------------------------------------------------------------ *)
(* _start and _on_tick                                                *)
(* ------------------------------------------------------------------ *)

\* the body of _on_tick
on_tick ==
    LET sl == TickSlots(1, futures, tasks, started)
        c == flush([bulks |-> bulks, queue |-> output_queue, published |-> <<>>],
                   FALSE)
    IN /\ futures' = sl.futures
       /\ tasks' = sl.tasks
       /\ bulks' = c.bulks
       /\ output_queue' = c.queue
       /\ published' = c.published
       /\ last_event' = LastPublished(last_event, c.published)
       /\ UNCHANGED <<started, exit_pc, pending, InsertMetric, fed>>

\* _start, on Application.run!: subscribe the tick, run one tick
Start ==
    /\ ~subscribed
    /\ exit_pc = "none"
    /\ subscribed' = TRUE
    /\ on_tick

\* _on_tick, on Application.tick!
Tick ==
    /\ subscribed
    /\ UNCHANGED subscribed
    /\ on_tick

(* ------------------------------------------------------------------ *)
(* ElasticSearchBulk.upload                                           *)
(* ------------------------------------------------------------------ *)

\* the per-item results an acknowledgement may carry
ResponseItem == { [index |-> {"error"}], [index |-> {"_id"}] }

\* response_item.get("index", "")
GetIndex(response_item) ==
    IF "index" \in DOMAIN response_item THEN response_item.index ELSE {}

RECURSIVE CountErrors(_)
\* the loop over response_items: counter += 1 for each item with an error
CountErrors(response_items) ==
    IF response_items = <<>> THEN 0
    ELSE (IF "error" \notin GetIndex(Head(response_items)) THEN 0 ELSE 1)
         + CountErrors(Tail(response_items))

SeqsUpTo(S, n) == UNION { [1..k -> S] : k \in 0..n }

\* what session.post / resp.json may give the upload of items_count items
\* (an acknowledgement lists at most one result per item)
Responses(items_count) ==
    { [kind |-> k, status |-> 0, errors |-> FALSE, items |-> <<>>] :
        k \in {"OSError", "Exception", "NotJSON"} }
    \cup { [kind |-> "JSON", status |-> st, errors |-> FALSE, items |-> <<>>] :
            st \in {200, 500} }
    \cup { [kind |-> "JSON", status |-> 200, errors |-> TRUE, items |-> its] :
            its \in { x \in SeqsUpTo(ResponseItem, MaxRespItems) :
                        Len(x) <= items_count } }

\* InsertMetric.add(name, n)
MetricAdd(metric, name, n) == [metric EXCEPT ![name] = @ + n]

\* every item of the bulk counted as inserted, errors on top
upload_partial_all_ok(metric, items_count, response_items) ==
    [metric EXCEPT !["fail"] = @ + CountErrors(response_items),
                   !["ok"] = @ + items_count]

\* upload, status 200 with errors: the counters after it
upload_partial(metric, items_count, response_items) ==
    LET counter == CountErrors(response_items)
    IN MetricAdd(MetricAdd(metric, "fail", counter), "ok", items_count - counter)

\* upload of a bulk with items, answered by resp:
\* [ret |-> what upload returns ("raise": it raises), metric |-> the counters]
upload(bulk, resp, metric) ==
    LET items_count == Len(bulk.Items) IN
    CASE resp.kind = "OSError" -> [ret |-> "False", metric |-> metric]
      [] resp.kind = "Exception" -> [ret |-> "raise", metric |-> metric]
      [] resp.kind = "NotJSON" -> [ret |-> "False", metric |-> metric]
      [] resp.kind = "JSON" /\ resp.status = 200 /\ ~resp.errors ->
            [ret |-> "True", metric |-> MetricAdd(metric, "ok", items_count)]
      [] resp.kind = "JSON" /\ resp.status = 200 /\ resp.errors ->
            [ret |-> "True",
             metric |-> upload_partial(metric, items_count, resp.items)]
      [] OTHER ->
            [ret |-> IF full_error_callback(bulk.Items, resp.status)
                     THEN "True" ELSE "False",
             metric |-> MetricAdd(metric, "fail", items_count)]

\* upload of a bulk without items: returns None before any request
upload_empty(bulk) == Len(bulk.Items) = 0

\* `not sucess` in _loader
not_sucess(ret) == ret \in {"False", "None"}

(* ------------------------------------------------------------------ *)
(* ElasticSearchConnection._loader                                    *)
(* ------------------------------------------------------------------ *)

\* `while self._started`: the task goes on to queue.get(), or returns
LoopTop(is_started) == IF is_started THEN "get" ELSE "done"

\* the preflight check: ready, not ready (sleep, return), or it raises
LoaderPreflight(t, outcome) ==
    /\ tasks[t].pc = "preflight"
    /\ tasks' = [tasks EXCEPT ![t].pc =
                    CASE outcome = "ready" -> LoopTop(started)
                      [] outcome = "not_ready" -> "preflight_sleep"
                      [] OTHER -> "done"]
    /\ published' = <<>>
    /\ UNCHANGED <<bulks, output_queue, started, futures, subscribed, exit_pc,
                   pending, InsertMetric, fed, last_event>>

\* the unpause check comparing with the max itself
unpause_at_max(q) ==
    IF Len(q) = output_queue_max_size THEN <<UNPAUSE>> ELSE <<>>

\* the unpause check after queue.get()
unpause(q) ==
    IF Len(q) = output_queue_max_size - 1 THEN <<UNPAUSE>> ELSE <<>>

\* queue.get() returns: None ends the task; a bulk is uploaded (a bulk
\* without items comes back from upload at once and is requeued)
LoaderGet(t) ==
    /\ tasks[t].pc = "get"
    /\ output_queue /= <<>>
    /\ LET bulk == Head(output_queue)
           q == Tail(output_queue)
       IN IF bulk = NoBulk
          THEN /\ tasks' = [tasks EXCEPT ![t].pc = "done"]
               /\ output_queue' = q
               /\ published' = <<>>
          ELSE IF upload_empty(bulk)
          THEN LET st == enqueue([queue |-> q, published |-> unpause(q)], bulk)
               IN /\ ~full(q)
                  /\ tasks' = [tasks EXCEPT ![t].pc = "requeue_sleep"]
                  /\ output_queue' = st.queue
                  /\ published' = st.published
          ELSE /\ tasks' = [tasks EXCEPT ![t].pc = "upload", ![t].bulk = bulk,
                               ![t].data = get_data_from_items(bulk.Items)]
               /\ output_queue' = q
               /\ published' = unpause(q)
    /\ last_event' = LastPublished(last_event, published')
    /\ UNCHANGED <<bulks, started, futures, subscribed, exit_pc, pending,
                   InsertMetric, fed>>

\* a loader that goes on with the next bulk after a failed upload
AfterUpload_goes_on(ret, is_started) ==
    IF ret = "raise" THEN "done" ELSE IF is_started THEN "get" ELSE "done"

\* what _loader does with what upload returned: the task's next place
AfterUpload(ret, is_started) ==
    CASE ret = "raise" -> "done"
      [] not_sucess(ret) -> "requeue_sleep"
      [] OTHER -> LoopTop(is_started)

\* the upload of the bulk the task holds ends
LoaderUpload(t, resp) ==
    /\ tasks[t].pc = "upload"
    /\ LET bulk == tasks[t].bulk
           u == upload(bulk, resp, InsertMetric)
       IN /\ u.metric.fail <= MaxFail
          /\ InsertMetric' = u.metric
          /\ tasks' = [tasks EXCEPT ![t].pc = AfterUpload(u.ret, started),
                                    ![t].bulk = NoBulk, ![t].data = <<>>]
          /\ IF u.ret /= "raise" /\ not_sucess(u.ret)
             THEN LET st == enqueue([queue |-> output_queue, published |-> <<>>],
                                    bulk)
                  IN /\ ~full(output_queue)
                     /\ output_queue' = st.queue
                     /\ published' = st.published
             ELSE /\ output_queue' = output_queue
                  /\ published' = <<>>
    /\ last_event' = LastPublished(last_event, published')
    /\ UNCHANGED <<bulks, started, futures, subscribed, exit_pc, pending,
                   fed>>

\* asyncio.sleep() is over: the task returns
LoaderWake(t) ==
    /\ tasks[t].pc \in {"preflight_sleep", "requeue_sleep"}
    /\ tasks' = [tasks EXCEPT ![t].pc = "done"]
    /\ published' = <<>>
    /\ UNCHANGED <<bulks, output_queue, started, futures, subscribed, exit_pc,
                   pending, InsertMetric, fed, last_event>>

(* ------------------------------------------------------------------ *)
(* ElasticSearchConnection._on_exit                                   *)
(* ------------------------------------------------------------------ *)

\* pending = [item[1] for item in self._futures]
PendingOf(fs) == { fs[i].future : i \in 1..Len(fs) }

\* `while len(pending) > 0`: put None and wait, or _on_exit returns
exit_wait(pend, q) ==
    IF pend /= {}
    THEN /\ ~full(q)
         /\ output_queue' = Append(q, NoBulk)
         /\ pending' = pend
         /\ exit_pc' = "wait"
    ELSE /\ output_queue' = q
         /\ pending' = pend
         /\ exit_pc' = "returned"

\* no loop: the loaders are stopped whatever the queue holds
exit_drain_once(c) ==
    /\ bulks' = c.bulks
    /\ published' = c.published
    /\ started' = FALSE
    /\ futures' = <<>>
    /\ exit_wait(PendingOf(futures), c.queue)

\* _started cleared before the queue is drained
exit_drain_stops_at_once(c) ==
    IF Len(c.queue) > 0
    THEN LET c2 == flush(c, TRUE)
         IN /\ bulks' = c2.bulks
            /\ output_queue' = c2.queue
            /\ published' = c2.published
            /\ exit_pc' = "drain_sleep"
            /\ started' = FALSE
            /\ UNCHANGED <<futures, pending>>
    ELSE /\ bulks' = c.bulks
         /\ published' = c.published
         /\ started' = FALSE
         /\ futures' = <<>>
         /\ exit_wait(PendingOf(futures), c.queue)

\* `while self._output_queue.qsize() > 0`: flush and sleep, or go on to
\* stop the loaders
exit_drain(c) ==
    IF Len(c.queue) > 0
    THEN LET c2 == flush(c, TRUE)
         IN /\ bulks' = c2.bulks
            /\ output_queue' = c2.queue
            /\ published' = c2.published
            /\ exit_pc' = "drain_sleep"
            /\ UNCHANGED <<started, futures, pending>>
    ELSE /\ bulks' = c.bulks
         /\ published' = c.published
         /\ started' = FALSE
         /\ futures' = <<>>
         /\ exit_wait(PendingOf(futures), c.queue)

\* _on_exit, on Application.exit!: up to its first await
OnExit ==
    /\ subscribed
    /\ exit_pc = "none"
    /\ exit_drain(flush([bulks |-> bulks, queue |-> output_queue,
                         published |-> <<>>], TRUE))
    /\ last_event' = LastPublished(last_event, published')
    /\ UNCHANGED <<tasks, subscribed, InsertMetric, fed>>

\* _on_exit after asyncio.sleep(1)
ExitDrainWake ==
    /\ exit_pc = "drain_sleep"
    /\ exit_drain([bulks |-> bulks, queue |-> output_queue, published |-> <<>>])
    /\ last_event' = LastPublished(last_event, published')
    /\ UNCHANGED <<tasks, subscribed, InsertMetric, fed>>

\* asyncio.wait(pending, FIRST_COMPLETED) returns
ExitWaitDone ==
    /\ exit_pc = "wait"
    /\ \E t \in pending : done(tasks[t])
    /\ exit_wait({ t \in pending : ~done(tasks[t]) }, output_queue)
    /\ published' = <<>>
    /\ UNCHANGED <<bulks, started, futures, tasks, subscribed, InsertMetric,
                   fed, last_event>>

(* ------------------------------------------------------------------ *)
(* The specification                                                  *)
(* ------------------------------------------------------------------ *)

Next ==
    \/ \E index \in Keys : ConsumeNone(index)
    \/ \E index \in Keys : \E feed \in Feeds : Consume(index, feed)
    \/ Start
    \/ Tick
    \/ \E t \in TaskIds : \E o \in {"ready", "not_ready", "raise"} :
            LoaderPreflight(t, o)
    \/ \E t \in TaskIds : LoaderGet(t)
    \/ \E t \in TaskIds : \E resp \in Responses(Len(tasks[t].bulk.Items)) :
            LoaderUpload(t, resp)
    \/ \E t \in TaskIds : LoaderWake(t)
    \/ OnExit
    \/ ExitDrainWake
    \/ ExitWaitDone

Spec == Init /\ [][Next]_vars

\* the producers stop calling consume once Application.exit! is handled
QuietConsumeNone(index) == exit_pc = "none" /\ ConsumeNone(index)

QuietConsume(index, feed) == exit_pc = "none" /\ Consume(index, feed)

NextQuiet ==
    \/ \E index \in Keys : QuietConsumeNone(index)
    \/ \E index \in Keys : \E feed \in Feeds : QuietConsume(index, feed)
    \/ Start
    \/ Tick
    \/ \E t \in TaskIds : \E o \in {"ready", "not_ready", "raise"} :
            LoaderPreflight(t, o)
    \/ \E t \in TaskIds : LoaderGet(t)
    \/ \E t \in TaskIds : \E resp \in Responses(Len(tasks[t].bulk.Items)) :
            LoaderUpload(t, resp)
    \/ \E t \in TaskIds : LoaderWake(t)
    \/ OnExit
    \/ ExitDrainWake
    \/ ExitWaitDone

SpecQuiet == Init /\ [][NextQuiet]_vars

\* what the event loop guarantees: the tick comes again and again, a sleep
\* ends, a request (it has a timeout) is answered or fails, queue.get()
\* returns when the queue holds something, asyncio.wait returns when a
\* task it waits for is done
Fairness ==
    /\ WF_vars(Tick)
    /\ WF_vars(ExitDrainWake)
    /\ WF_vars(ExitWaitDone)
    /\ \A t \in TaskIds :
          /\ WF_vars(LoaderWake(t))
          /\ WF_vars(LoaderGet(t))
          /\ WF_vars(\E o \in {"ready", "not_ready", "raise"} :
                        LoaderPreflight(t, o))
          /\ WF_vars(\E resp \in Responses(Len(tasks[t].bulk.Items)) :
                        LoaderUpload(t, resp))

\* consume() within the bound of the runs checked for liveness
LiveConsume(index, feed) == fed < MaxConsumeLive /\ Consume(index, feed)

NextLive ==
    \/ \E index \in Keys : ConsumeNone(index)
    \/ \E index \in Keys : \E feed \in Feeds : LiveConsume(index, feed)
    \/ Start
    \/ Tick
    \/ \E t \in TaskIds : \E o \in {"ready", "not_ready", "raise"} :
            LoaderPreflight(t, o)
    \/ \E t \in TaskIds : LoaderGet(t)
    \/ \E t \in TaskIds : \E resp \in Responses(Len(tasks[t].bulk.Items)) :
            LoaderUpload(t, resp)
    \/ \E t \in TaskIds : LoaderWake(t)
    \/ OnExit
    \/ ExitDrainWake
    \/ ExitWaitDone

SpecLive == Init /\ [][NextLive]_vars /\ Fairness

\* the runs of Spec that are fair
SpecFair == Init /\ [][Next]_vars /\ Fairness

(* ------------------------------------------------------------------ *)
(* Properties                                                         *)
(* ------------------------------------------------------------------ *)

\* how often notification n is in a sequence of published notifications
Count(pub, n) == Cardinality({ i \in 1..Len(pub) : pub[i] = n })

\* this step is a _loader() task returning from queue.get()
Popped == \E t \in TaskIds : tasks[t].pc = "get" /\ tasks'[t].pc /= "get"

\* the queue this step's pushes were made to
PushBase == IF Popped THEN Tail(output_queue) ELSE output_queue

\* this step pushed a bulk (not None) that left the queue n deep
BulkPushLeft(n) ==
    \E j \in (Len(PushBase) + 1)..Len(output_queue') :
        output_queue'[j] /= NoBulk /\ j = n

\* C1: a step publishes pause, once, if and only if one of its pushes of a
\* bulk (from consume, from a flush, from a loader's requeue) left the queue
\* exactly output_queue_max_size deep; a push that leaves it deeper, and a
\* step that pushes no bulk, publish none.
C1_PauseIffPushReachesMax ==
    [][Count(published', PAUSE) =
         (IF BulkPushLeft(output_queue_max_size) THEN 1 ELSE 0)]_vars

\* C1: a push has just left the queue at the max and pause was published
C1_Witness ==
    /\ Count(published, PAUSE) = 1
    /\ Len(output_queue) = output_queue_max_size
    /\ output_queue[Len(output_queue)] /= NoBulk

\* C2: a step publishes unpause, once, if and only if a loader popped a
\* bulk (not None) and the pop left the queue output_queue_max_size - 1 deep.
C2_UnpauseIffPopLeavesMaxMinusOne ==
    [][Count(published', UNPAUSE) =
         (IF /\ Popped
             /\ Head(output_queue) /= NoBulk
             /\ Len(Tail(output_queue)) = output_queue_max_size - 1
          THEN 1 ELSE 0)]_vars

\* C2: a loader holds a bulk it popped, the pop published unpause
C2_Witness ==
    /\ published = <<UNPAUSE>>
    /\ Len(output_queue) = output_queue_max_size - 1
    /\ \E t \in TaskIds : tasks[t].pc = "upload"

RECURSIVE Bytes(_)
\* the payload bytes of a sequence of items
Bytes(items) ==
    IF items = <<>> THEN 0 ELSE Len(Head(items)) + Bytes(Tail(items))

\* the items of the open bulk of index (none when it has no open bulk)
ItemsOf(bs, index) ==
    IF IndexPos(bs, index) = {} THEN <<>>
    ELSE bs[CHOOSE i \in IndexPos(bs, index) : TRUE].Items

Last(s) == s[Len(s)]

\* C3: a consume call seals the bulk of its index (takes it out of the open
\* bulks and enqueues it) if and only if the payload bytes appended to it
\* since it was created are at least bulk_out_max_size; otherwise the bulk
\* stays open with the items appended; no open bulk is at or over capacity
\* after any step.
C3_SealedIffBytesReachCapacity ==
    [][/\ \A index \in Keys : \A feed \in Feeds :
            Consume(index, feed) =>
              LET all == ItemsOf(bulks, index) \o feed IN
              IF Bytes(all) >= bulk_out_max_size
              THEN /\ IndexPos(bulks', index) = {}
                   /\ Len(output_queue') = Len(output_queue) + 1
                   /\ Last(output_queue').Index = index
                   /\ Last(output_queue').Items = all
              ELSE /\ output_queue' = output_queue
                   /\ IndexPos(bulks', index) /= {}
                   /\ ItemsOf(bulks', index) = all
       /\ \A i \in 1..Len(bulks') :
            Bytes(bulks'[i].Items) < bulk_out_max_size]_vars

\* C3: one bulk was sealed with exactly the capacity in two items, another
\* is open below capacity
C3_Witness ==
    /\ \E i \in 1..Len(output_queue) :
          /\ Len(output_queue[i].Items) = 2
          /\ Bytes(output_queue[i].Items) = bulk_out_max_size
    /\ \E i \in 1..Len(bulks) : Bytes(bulks[i].Items) > 0

\* this step is a pass of _on_tick
TickStep == Tick \/ Start

\* the bulks this step pushed
PushedBulks ==
    { output_queue'[j] : j \in (Len(PushBase) + 1)..Len(output_queue') }

\* what a tick pass does to the open bulks: one that was through a pass
\* since its last reset (Aging >= 1) is taken out and enqueued though it is
\* not full; one with Aging 0 stays, with Aging 1
C4_TickSeals ==
    TickStep =>
      \A i \in 1..Len(bulks) :
        IF bulks[i].Aging >= 1
        THEN /\ IndexPos(bulks', bulks[i].Index) = {}
             /\ [bulks[i] EXCEPT !.Aging = @ + 1] \in PushedBulks
             /\ ~BulkFull(bulks[i])
        ELSE /\ ItemsOf(bulks', bulks[i].Index) = bulks[i].Items
             /\ \A j \in IndexPos(bulks', bulks[i].Index) : bulks'[j].Aging = 1
             /\ IndexPos(bulks', bulks[i].Index) /= {}

\* a consume call that passes a feed leaves the open bulk of its index
\* with Aging 0
C4_FeedResets ==
    \A index \in Keys : \A feed \in Feeds :
        Consume(index, feed) =>
            \A j \in IndexPos(bulks', index) : bulks'[j].Aging = 0

\* a consume call that passes None leaves the open bulk of its index with
\* Aging 0
C4_NoneResets ==
    \A index \in Keys :
        ConsumeNone(index) =>
            \A j \in IndexPos(bulks', index) : bulks'[j].Aging = 0

\* only a tick pass (or the forced flush of _on_exit) changes the Aging of
\* a bulk that stays open, and only a feed resets it
C4_AgingFrame ==
    ~TickStep /\ exit_pc' = exit_pc =>
        \A i \in 1..Len(bulks') :
            \/ bulks'[i].Aging = 0
            \/ \E j \in 1..Len(bulks) :
                  /\ bulks[j].Index = bulks'[i].Index
                  /\ bulks[j].Aging = bulks'[i].Aging

\* C4 as claimed: a bulk without a consume call across two tick passes is
\* sealed by the second though not full, and any consume call for its
\* index, None included, resets its Aging to 0.
C4_AnyConsumeResets ==
    [][C4_TickSeals /\ C4_FeedResets /\ C4_NoneResets /\ C4_AgingFrame]_vars

\* C4 as amended: the same, with the reset made by the consume calls that
\* pass a feed; consume(index, None) returns at once and leaves the Aging.
C4_FeedConsumeResets ==
    [][/\ C4_TickSeals
       /\ C4_FeedResets
       /\ C4_AgingFrame
       /\ \A index \in Keys : ConsumeNone(index) => bulks' = bulks]_vars

\* C4: a bulk that is not full was sealed by a tick pass and is in the queue,
\* while another bulk is open with Aging 1
C4_Witness ==
    /\ \E i \in 1..Len(output_queue) :
          /\ output_queue[i] /= NoBulk
          /\ output_queue[i].Aging = 2
          /\ output_queue[i].Capacity > 0
    /\ \E i \in 1..Len(bulks) : bulks[i].Aging = 1

\* a bulk as index and items
Content(bulk) == <<bulk.Index, bulk.Items>>

\* how many bulks with content x are open, queued or held by a loader
Copies(bs, q, ts, x) ==
    Cardinality({ i \in 1..Len(bs) : Content(bs[i]) = x })
    + Cardinality({ i \in 1..Len(q) : q[i] /= NoBulk /\ Content(q[i]) = x })
    + Cardinality({ t \in TaskIds : ts[t].pc = "upload" /\ Content(ts[t].bulk) = x })

\* the contents of the bulks of a state
Contents(bs, q, ts) ==
    { Content(bs[i]) : i \in 1..Len(bs) }
    \cup { Content(q[i]) : i \in { j \in 1..Len(q) : q[j] /= NoBulk } }
    \cup { Content(ts[t].bulk) : t \in { u \in TaskIds : ts[u].pc = "upload" } }

\* this step is a consume call that passes a feed
ConsumeStep == \E index \in Keys : \E feed \in Feeds : Consume(index, feed)

\* C5: the items of an index are kept and sent in the order they were
\* appended: a consume call puts its feed, in order, after the items the bulk
\* holds; no other step adds to, reorders or changes the items of a bulk,
\* open, queued, held or requeued; and the data a loader posts for the bulk
\* it popped are the bulk's items, first to last.
C5_ItemsSentInAppendOrder ==
    [][/\ \A index \in Keys : \A feed \in Feeds :
            Consume(index, feed) =>
              LET all == ItemsOf(bulks, index) \o feed IN
              \/ IndexPos(bulks', index) /= {} /\ ItemsOf(bulks', index) = all
              \/ /\ IndexPos(bulks', index) = {}
                 /\ Content(Last(output_queue')) = <<index, all>>
       /\ \A t \in TaskIds :
            /\ tasks[t].pc = "get" /\ tasks'[t].pc = "upload" =>
                  /\ tasks'[t].bulk = Head(output_queue)
                  /\ tasks'[t].data = Head(output_queue).Items
            /\ tasks[t].pc = "upload" /\ tasks'[t].pc = "requeue_sleep" =>
                  Content(Last(output_queue')) = Content(tasks[t].bulk)
       /\ ~ConsumeStep =>
            \A x \in Contents(bulks', output_queue', tasks') :
                Copies(bulks', output_queue', tasks', x)
                    <= Copies(bulks, output_queue, tasks, x)]_vars

\* C5: a loader posts the two items of a bulk that two consume calls filled,
\* the one-byte item first
C5_Witness ==
    /\ fed = 2
    /\ \E t \in TaskIds :
          /\ tasks[t].pc = "upload"
          /\ tasks[t].data = << <<0>>, <<0, 0>> >>

\* the items of an acknowledgement that report an error
Errored(response_items) ==
    Cardinality({ i \in 1..Len(response_items) :
                    "error" \in response_items[i].index })

\* the upload of the n items task t holds is answered 200 with k errored
\* items, 0 < k <= n: ok grows by n - k, fail by k, the bulk is not put
\* back, and the task is then at pc
PartialFailure(pc_after) ==
    \A t \in TaskIds :
      \A resp \in Responses(Len(tasks[t].bulk.Items)) :
        LET n == Len(tasks[t].bulk.Items)
            k == Errored(resp.items)
        IN /\ LoaderUpload(t, resp)
           /\ resp.kind = "JSON" /\ resp.status = 200 /\ resp.errors
           /\ 0 < k /\ k <= n
           => /\ InsertMetric'.ok = InsertMetric.ok + (n - k)
              /\ InsertMetric'.fail = InsertMetric.fail + k
              /\ output_queue' = output_queue
              /\ tasks'[t].pc = pc_after

\* C6 as claimed: after a partial failure the counters grow by n - k and k,
\* the bulk is not requeued and the loader stays in its loop, at queue.get().
C6_PartialFailureStaysRunning == [][PartialFailure("get")]_vars

\* C6 as amended: the same, the loader staying in its loop while _started
\* is set; once _on_exit has cleared _started the loader returns.
C6_PartialFailureAccounting ==
    [][PartialFailure(IF started THEN "get" ELSE "done")]_vars

\* C6: the one bulk of the run, of two items, was answered with one error
C6_Witness ==
    /\ fed = 1
    /\ InsertMetric = [ok |-> 1, fail |-> 1]
    /\ output_queue = <<>>
    /\ started

C8_ShutdownLeavesNoBulk ==
    exit_pc = "returned" =>
        /\ bulks = <<>>
        /\ \A i \in 1..Len(output_queue) : output_queue[i] = NoBulk
        /\ \A t \in TaskIds : tasks[t].pc \in {"free", "done"}

\* the items of a consume call are, after it, in the open bulk of the index
\* or in a bulk the call put at the end of the queue
HeldAfterConsume(index, feed) ==
    LET all == ItemsOf(bulks, index) \o feed IN
    \/ /\ IndexPos(bulks', index) /= {}
       /\ ItemsOf(bulks', index) = all
       /\ output_queue' = output_queue
    \/ /\ IndexPos(bulks', index) = {}
       /\ output_queue' = Append(output_queue, Last(output_queue'))
       /\ Content(Last(output_queue')) = <<index, all>>

\* C9: consume can be called in every state, whatever the depth of the
\* queue, and returns in the same step with the items in the open bulk of
\* the index or in a bulk put on the queue (the calls of the model are
\* counted, so those within MaxConsume are looked at).
C9_ConsumeNeverBlocks ==
    /\ [](\A index \in Keys :
            /\ ENABLED ConsumeNone(index)
            /\ \A feed \in Feeds :
                  fed < MaxConsume => ENABLED Consume(index, feed))
    /\ [][\A index \in Keys : \A feed \in Feeds :
            Consume(index, feed) => HeldAfterConsume(index, feed)]_vars

\* C9: a consume call has put a bulk on a queue that was at the max
C9_Witness ==
    /\ Len(output_queue) > output_queue_max_size
    /\ Last(output_queue) /= NoBulk
    /\ Last(output_queue).Aging = 0
    /\ Last(output_queue).Items /= <<>>
    /\ exit_pc = "none"

\* C10: the queue never holds more than output_queue_max_size entries.
C10_QueueAtMostMax == Len(output_queue) <= output_queue_max_size

\* how many bulks with content x are in the queue or held by a loader that
\* is uploading them
InFlight(q, ts, x) ==
    Cardinality({ i \in 1..Len(q) : q[i] /= NoBulk /\ Content(q[i]) = x })
    + Cardinality({ t \in TaskIds : ts[t].pc = "upload" /\ Content(ts[t].bulk) = x })

\* this step ends the delivery of a bulk with content x for good: its upload
\* is answered with status 200, or the full-failure callback decides against
\* another attempt
TerminalOutcome(x) ==
    \E t \in TaskIds : \E resp \in Responses(Len(tasks[t].bulk.Items)) :
        /\ LoaderUpload(t, resp)
        /\ Content(tasks[t].bulk) = x
        /\ resp.kind = "JSON"
        /\ \/ resp.status = 200
           \/ full_error_callback(tasks[t].bulk.Items, resp.status)

\* C11: a bulk that was put on the queue stays in the queue or with a loader
\* that uploads it until a terminal outcome: no step takes a bulk out of
\* both unless it is an upload answered with status 200 or dropped by the
\* full-failure callback, and such a step takes out that one bulk only.
C11_NoBatchDisappears ==
    [][\A x \in Contents(<<>>, output_queue, tasks) :
         InFlight(output_queue', tasks', x) >=
            InFlight(output_queue, tasks, x)
                - (IF TerminalOutcome(x) THEN 1 ELSE 0)]_vars

RECURSIVE Alternates(_, _)
\* the notifications pub, published after prev, go on alternating:
\* pause after nothing or after unpause, unpause after pause
Alternates(prev, pub) ==
    \/ pub = <<>>
    \/ /\ Head(pub) = (IF prev = PAUSE THEN UNPAUSE ELSE PAUSE)
       /\ Alternates(Head(pub), Tail(pub))

\* C19: the notifications published over a run alternate pause, unpause,
\* pause, ... starting with pause: every step publishes what goes on the
\* alternation from the last notification published before it.
C19_NotificationsAlternate ==
    [][Alternates(last_event, published')]_vars

\* slot i holds a task that has finished
SlotDead(fs, ts, i) == fs[i].future /= NoFuture /\ done(ts[fs[i].future])

\* slot i holds a task that has not finished
SlotLive(fs, ts, i) == fs[i].future /= NoFuture /\ ~done(ts[fs[i].future])

\* C12: while _started is set, a pass of _on_tick leaves every slot with a
\* task that has not finished, and a slot whose task had finished (after a
\* failed preflight, a failed upload or an exception) with a new task at
\* its preflight, whatever the queue and the open bulks hold; and with the
\* tick coming again and again, a slot whose task has finished gets a new
\* task (or _on_exit clears _started first).
C12_DeadWorkerReplaced ==
    /\ [][TickStep /\ started =>
            /\ Len(futures') = Len(futures)
            /\ \A i \in 1..Len(futures) :
                  /\ SlotLive(futures', tasks', i)
                  /\ SlotDead(futures, tasks, i) =>
                        tasks'[futures'[i].future].pc = "preflight"]_vars
    /\ \A i \in 1..Len(InitFutures) :
          (started /\ i <= Len(futures) /\ SlotDead(futures, tasks, i))
             ~> (~started \/ (i <= Len(futures) /\ SlotLive(futures, tasks, i)))

\* C12: nothing is pending; more items were counted than consume() was
\* given, so an upload was answered with a bad status and its loader ended;
\* and every slot holds a task that has not finished, one at its preflight
C12_Witness ==
    /\ started
    /\ output_queue = <<>> /\ bulks = <<>>
    /\ InsertMetric.ok + InsertMetric.fail > MaxFeed * MaxConsumeLive
    /\ \A i \in 1..Len(futures) : SlotLive(futures, tasks, i)
    /\ \E i \in 1..Len(futures) : tasks[futures[i].future].pc = "preflight"
    /\ \A t \in TaskIds : tasks[t].pc \in {"free", "preflight", "get"}

\* C13: an upload of n items answered with a status other than 200 and a
\* JSON body adds n to "fail" and nothing to "ok"; upload returns what
\* full_error_callback returns for the bulk's items and the status, which is
\* False; so the loader puts the bulk back at the end of the queue as it
\* was, and leaves its loop: it sleeps and returns.
C13_StatusFailureRequeues ==
    [][\A t \in TaskIds :
         /\ \A resp \in Responses(Len(tasks[t].bulk.Items)) :
               LoaderUpload(t, resp) /\ resp.kind = "JSON" /\ resp.status /= 200 =>
                 LET n == Len(tasks[t].bulk.Items) IN
                 /\ InsertMetric'.fail = InsertMetric.fail + n
                 /\ InsertMetric'.ok = InsertMetric.ok
                 /\ upload(tasks[t].bulk, resp, InsertMetric).ret =
                        (IF full_error_callback(tasks[t].bulk.Items, resp.status)
                         THEN "True" ELSE "False")
                 /\ output_queue' = Append(output_queue, tasks[t].bulk)
                 /\ tasks'[t].pc = "requeue_sleep"
                 /\ tasks'[t].bulk = NoBulk
         /\ tasks[t].pc = "requeue_sleep" /\ tasks'[t] /= tasks[t] =>
               tasks'[t].pc = "done" /\ output_queue' = output_queue]_vars

\* C13: the one bulk of the run, of two items, was answered with a bad
\* status: it is back in the queue, "fail" is 2, and its loader sleeps
C13_Witness ==
    /\ fed = 1
    /\ InsertMetric = [ok |-> 0, fail |-> 2]
    /\ output_queue /= <<>>
    /\ Len(Last(output_queue).Items) = 2
    /\ \E t \in TaskIds : tasks[t].pc = "requeue_sleep"

\* the tasks that were started and have not finished
Unfinished(ts) == { t \in TaskIds : ts[t].pc \notin {"free", "done"} }

\* the slots that hold task t
SlotsOf(fs, t) == { i \in 1..Len(fs) : fs[i].future = t }

\* C20: while _started is set there are loader_per_url slots per node, every
\* task that has not finished is the task of exactly one slot (so there are
\* no more of them than slots), and a step puts a new task into a slot only
\* when the slot was empty or its task had finished.
C20_OneLoaderPerSlot ==
    /\ [](started =>
            /\ Len(futures) = Len(node_urls) * loader_per_url
            /\ \A i \in 1..Len(futures) :
                  futures[i].url = node_urls[((i - 1) \div loader_per_url) + 1]
            /\ \A t \in Unfinished(tasks) : Cardinality(SlotsOf(futures, t)) = 1
            /\ Cardinality(Unfinished(tasks)) <= Len(futures))
    /\ [][\A i \in 1..Len(futures') :
            /\ futures'[i].future /= NoFuture
            /\ \/ futures'[i].future /= futures[i].future
               \/ /\ done(tasks[futures[i].future])
                  /\ ~done(tasks'[futures'[i].future])
            => /\ TickStep
               /\ started
               /\ futures[i].future = NoFuture \/ done(tasks[futures[i].future])
               /\ tasks'[futures'[i].future].pc = "preflight"]_vars

\* C20: a tick has filled both slots again after a loader ended on a failed
\* upload: two tasks have not finished, none is left finished, and the bulk
\* is back with a loader
C20_Witness ==
    /\ started
    /\ Cardinality(Unfinished(tasks)) = Len(node_urls) * loader_per_url
    /\ \A t \in TaskIds : ~done(tasks[t])
    /\ InsertMetric.fail > 0 /\ InsertMetric.ok = 0
    /\ \E t \in TaskIds : tasks[t].pc = "upload"
    /\ \E t \in TaskIds : tasks[t].pc = "preflight"

\* the bulks that left the open bulks: in the queue or with a loader
Sealed(q, ts) ==
    { q[i] : i \in { j \in 1..Len(q) : q[j] /= NoBulk } }
    \cup { ts[t].bulk : t \in { u \in TaskIds : ts[u].pc = "upload" } }

\* all items of a sequence but the last
Front(s) == SubSeq(s, 1, Len(s) - 1)

\* C14 as claimed: a bulk gets no item once its Capacity is <= 0, within one
\* consume call too: the items of a sealed bulk before its last one are
\* below bulk_out_max_size, so the bulk is over it by less than its last item.
C14_SealedTheInstant ==
    \A bulk \in Sealed(output_queue, tasks) :
        bulk.Items /= <<>> =>
            /\ Bytes(Front(bulk.Items)) < bulk_out_max_size
            /\ Bytes(bulk.Items) - bulk_out_max_size < Len(Last(bulk.Items))

\* C14 as amended: Capacity is tested once per consume call, after the
\* whole feed was appended. A consume call finds the open bulk of its index
\* below bulk_out_max_size (a bulk gets no further call once its Capacity is
\* <= 0), appends every item of the feed, and seals the bulk if and only if
\* Capacity, bulk_out_max_size less the bytes of all items, is then <= 0:
\* the sealed bulk is over bulk_out_max_size by less than the bytes of that
\* last feed.
C14_SealedAfterWholeFeed ==
    [][\A index \in Keys : \A feed \in Feeds :
         Consume(index, feed) =>
           LET before == ItemsOf(bulks, index)
               all == before \o feed
           IN /\ Bytes(before) < bulk_out_max_size
              /\ IF bulk_out_max_size - Bytes(all) <= 0
                 THEN /\ IndexPos(bulks', index) = {}
                      /\ Last(output_queue').Items = all
                      /\ Last(output_queue').Capacity =
                            bulk_out_max_size - Bytes(all)
                      /\ Bytes(all) - bulk_out_max_size < Bytes(feed)
                 ELSE /\ ItemsOf(bulks', index) = all
                      /\ \A i \in IndexPos(bulks', index) :
                            bulks'[i].Capacity = bulk_out_max_size - Bytes(all)
                      /\ output_queue' = output_queue]_vars

\* C14: a consume call with two items of two bytes has sealed a bulk that
\* the first item had filled: it is over bulk_out_max_size by its last item
C14_Witness ==
    \E i \in 1..Len(output_queue) :
        /\ output_queue[i].Items = << <<0, 0>>, <<0, 0>> >>
        /\ output_queue[i].Capacity = 0 - 2
        /\ output_queue[i].Aging = 0

\* the answers _loader takes as a full failure of the upload
FullFailure(bulk, resp) ==
    \/ resp.kind \in {"OSError", "NotJSON"}
    \/ /\ resp.kind = "JSON" /\ resp.status /= 200
       /\ ~full_error_callback(bulk.Items, resp.status)

\* the items an answer that is no full failure accepts
Accepted(bulk, resp) ==
    IF resp.errors THEN Len(bulk.Items) - Errored(resp.items)
    ELSE Len(bulk.Items)

\* C16: a loader puts the bulk it popped back on the queue and leaves its
\* loop if and only if the upload was a full failure (OSError, a body that is
\* not JSON, a status other than 200 with the callback returning False). For
\* every other bulk it popped, status 200 with or without errors and also a
\* bulk without items, it adds the accepted items to "ok", does not put the
\* bulk back, lets go of its items and goes on with its loop (as far as
\* _started lets it); an upload that raises is left aside.
C16_RequeueIffFullFailure ==
    [][\A t \in TaskIds :
         /\ \A resp \in Responses(Len(tasks[t].bulk.Items)) :
               LoaderUpload(t, resp) /\ resp.kind /= "Exception" =>
                 IF FullFailure(tasks[t].bulk, resp)
                 THEN /\ output_queue' = Append(output_queue, tasks[t].bulk)
                      /\ tasks'[t].pc = "requeue_sleep"
                 ELSE /\ output_queue' = output_queue
                      /\ InsertMetric'.ok =
                            InsertMetric.ok + Accepted(tasks[t].bulk, resp)
                      /\ tasks'[t].bulk = NoBulk
                      /\ tasks'[t].pc = LoopTop(started)
         /\ /\ LoaderGet(t)
            /\ Head(output_queue) /= NoBulk
            /\ Head(output_queue).Items = <<>>
            => /\ output_queue' = Tail(output_queue)
               /\ InsertMetric' = InsertMetric
               /\ tasks'[t].pc \notin {"requeue_sleep", "done"}]_vars

\* how many bulks of index k are open, in the queue or with a loader
PerIndex(bs, q, ts, k) ==
    Cardinality(IndexPos(bs, k))
    + Cardinality({ i \in 1..Len(q) : q[i] /= NoBulk /\ q[i].Index = k })
    + Cardinality({ t \in TaskIds : ts[t].pc = "upload" /\ ts[t].bulk.Index = k })

\* C17: a bulk is in one place at a time. There is at most one open bulk per
\* index and a loader holds a bulk exactly while it uploads it; a consume
\* call adds one bulk, open, when its index has none, and no other step adds
\* a bulk anywhere: sealing, aging, popping and requeueing only move a bulk
\* from the open bulks to the queue, from the queue to a loader and from the
\* loader back to the queue, so the count of the bulks of an index over the
\* three places never grows by a move, nor does the count of a content.
C17_BulkInOnePlace ==
    /\ [](/\ \A k \in Keys : Cardinality(IndexPos(bulks, k)) <= 1
          /\ \A t \in TaskIds :
                (tasks[t].pc = "upload") <=> (tasks[t].bulk /= NoBulk))
    /\ [][/\ \A k \in Keys : \A feed \in Feeds :
                Consume(k, feed) =>
                  /\ PerIndex(bulks', output_queue', tasks', k) =
                        PerIndex(bulks, output_queue, tasks, k)
                          + (IF IndexPos(bulks, k) = {} THEN 1 ELSE 0)
                  /\ \A j \in Keys \ {k} :
                        PerIndex(bulks', output_queue', tasks', j) =
                          PerIndex(bulks, output_queue, tasks, j)
          /\ ~ConsumeStep =>
               /\ \A k \in Keys :
                     PerIndex(bulks', output_queue', tasks', k)
                         <= PerIndex(bulks, output_queue, tasks, k)
               /\ \A x \in Contents(bulks, output_queue, tasks)
                           \cup Contents(bulks', output_queue', tasks') :
                     Copies(bulks', output_queue', tasks', x)
                         <= Copies(bulks, output_queue, tasks, x)]_vars

\* C17: a bulk of x is back in the queue after a failed upload, its loader
\* was replaced, and another bulk of x is open
C17_Witness ==
    /\ InsertMetric.fail > 0 /\ InsertMetric.ok = 0
    /\ \E i \in 1..Len(output_queue) :
          output_queue[i].Index = "x" /\ output_queue[i].Items /= <<>>
    /\ \E i \in 1..Len(bulks) : bulks[i].Index = "x" /\ bulks[i].Items /= <<>>
    /\ \A t \in TaskIds : tasks[t].pc \in {"free", "preflight", "get"}
    /\ \E t \in TaskIds : tasks[t].pc = "preflight"

\* the queue holds no bulk (None at most)
NoBulkIn(q) == \A i \in 1..Len(q) : q[i] = NoBulk

\* C15 as claimed: _on_exit gets out of its drain loop after a bounded
\* number of polls, also when the queue never empties, and goes on to stop
\* the loaders.
C15_DrainPollingEnds ==
    (exit_pc = "drain_sleep") ~> (exit_pc \in {"wait", "returned"})

\* C15 as amended: _on_exit polls for as long as the queue is not empty.
\* It enters the drain loop whenever a bulk is open or queued at exit, a
\* poll that finds the queue not empty is followed by another (_started
\* still set), and it goes on to stop the loaders only from an empty queue
\* (a bulk opened by a consume call during the polls may still be open).
C15_PollsWhileQueueNotEmpty ==
    [][/\ exit_pc = "drain_sleep" /\ output_queue /= <<>> =>
            exit_pc' = "drain_sleep" /\ started'
       /\ exit_pc = "none" /\ exit_pc' /= "none"
              /\ (output_queue /= <<>> \/ bulks /= <<>>) =>
            exit_pc' = "drain_sleep" /\ started'
       /\ exit_pc \in {"none", "drain_sleep"}
              /\ exit_pc' \in {"wait", "returned"} =>
            /\ output_queue = <<>>
            /\ exit_pc = "none" => bulks = <<>>
            /\ NoBulkIn(output_queue')
            /\ ~started']_vars

\* C15: _on_exit is in its drain loop with a bulk in the queue that was
\* answered with a bad status twice, or once with two items, and put back;
\* a new loader is at its preflight
C15_Witness ==
    /\ exit_pc = "drain_sleep"
    /\ output_queue /= <<>> /\ ~NoBulkIn(output_queue)
    /\ InsertMetric = [ok |-> 0, fail |-> 2]
    /\ \E t \in TaskIds : tasks[t].pc = "preflight"

\* C18 as claimed: _started is set exactly until _on_exit is invoked, and
\* no step after that starts a loader.
C18_StartedFalseFromExit ==
    /\ [](started <=> exit_pc = "none")
    /\ [][exit_pc /= "none" =>
            \A t \in TaskIds : tasks'[t].pc = "preflight" =>
                                  tasks[t].pc = "preflight"]_vars

\* C18 as amended: _started is set before _on_exit is invoked and while
\* _on_exit polls the queue in its drain loop (where a tick still starts
\* loaders); it is cleared when _on_exit finds the queue empty, and from
\* then on it stays cleared, there are no slots and no step starts a loader.
C18_StartedUntilDrained ==
    /\ [](started <=> exit_pc \in {"none", "drain_sleep"})
    /\ [][~started =>
            /\ ~started'
            /\ futures' = <<>>
            /\ \A t \in TaskIds : tasks'[t].pc = "preflight" =>
                                    tasks[t].pc = "preflight"]_vars

\* C18: _on_exit is in its drain loop, _started is set, a bulk was delivered
\* and a loader is at its preflight
C18_Witness ==
    /\ exit_pc = "drain_sleep"
    /\ started
    /\ InsertMetric.ok > 0
    /\ output_queue /= <<>>
    /\ \E t \in TaskIds : tasks[t].pc = "preflight"

====
